---- MODULE Spec2Model ----
(***************************************************************************)
(* A model of ascii_art.py: the resampler's size computation, the dither   *)
(* engine's raster scans, the glyph mappers and the run of image_to_ascii  *)
(* and main.  Names follow the source.                                     *)
(***************************************************************************)
EXTENDS Integers, Sequences, FiniteSets, TLC

\* ------------------------------------------------------------------ bounds
\* Largest grid the dither engine is run on (width x height).
MaxW == 4
MaxH == 3
\* Most frames of a multi-frame source, and most playback events recorded.
MaxFrames == 2
MaxEvents == 8
\* Largest grid the glyph mappers are run on (MaxMapDim x MaxMapDim).
MaxMapDim == 2
\* Source sizes and target widths 1..MaxDim the resampler is run on.
MaxDim == 6

\* --------------------------------------------------- np.float64 arithmetic
\* img_array is a float64 array.  Every value the scans produce is a dyadic
\* rational k / 2^48 of magnitude below 2^9, so it is written exactly as
\* <<hi, a, b, c>> = hi + a/2^16 + b/2^32 + c/2^48 with 0 <= a, b, c < 2^16
\* and hi the floor of the value.  FloatExact (below) states that no value
\* needs more than the 53 bits of a float64 mantissa, so the float
\* operations of the source round nothing and are these exact operations.
Limb == 2^16

Norm(h, a, b, c) ==
    LET b1 == b + (c \div Limb)
        a1 == a + (b1 \div Limb)
    IN  <<h + (a1 \div Limb), a1 % Limb, b1 % Limb, c % Limb>>

FromInt(n) == <<n, 0, 0, 0>>

FAdd(p, q) == Norm(p[1] + q[1], p[2] + q[2], p[3] + q[3], p[4] + q[4])

FSub(p, q) == Norm(p[1] - q[1], p[2] - q[2], p[3] - q[3], p[4] - q[4])

\* p * k for a small non-negative integer k
FMul(p, k) == Norm(p[1] * k, p[2] * k, p[3] * k, p[4] * k)

\* p / d for d a power of two dividing Limb
FDiv(p, d) ==
    LET s  == Limb \div d
        a1 == (p[1] % d) * s + (p[2] \div d)
        b1 == (p[2] % d) * s + (p[3] \div d)
        c1 == (p[3] % d) * s + (p[4] \div d)
    IN  <<p[1] \div d, a1, b1, c1>>

\* p > n for an integer n
FGt(p, n) == p[1] > n \/ (p[1] = n /\ (p[2] # 0 \/ p[3] # 0 \/ p[4] # 0))

\* p < n for an integer n
FLt(p, n) == p[1] < n

\* Clamp with the clamping left out
ClampNone(p) == p

\* max(0, min(255, p)) and np.clip(p, 0, 255)
Clamp(p) == IF FLt(p, 0) THEN FromInt(0) ELSE IF FGt(p, 255) THEN FromInt(255) ELSE p

\* astype(np.uint8) of a value already clipped to [0, 255]: truncation
ToUint8(p) == p[1]

\* p fits a float64: magnitude below 2^9 and at most 44 fractional bits
Fits(p) == p[1] \in -512..511 /\ p[4] % 16 = 0

\* ------------------------------------------------------------- the state
VARIABLES
    pc,         \* where the modelled call stands
    method,     \* apply_dithering: the dithering method
    image,      \* apply_dithering: the grayscale input, <<y, x>> -> 0..255
    height,     \* img_array.shape[0]
    width,      \* img_array.shape[1]
    img_array,  \* the float64 working buffer, <<y, x>> -> float
    y,          \* the scan's row
    x,          \* the scan's column
    old_pixel,  \* value read at the pixel processed last
    new_pixel,  \* value written at the pixel processed last
    shares,     \* neighbour cell -> amount added to it by the last step
    left_range, \* some working value has been outside [0, 255]
    result,     \* the grid apply_dithering returns, <<y, x>> -> 0..255
    size,       \* resize_image: image.size of the source, <<width, height>>
    new_width,  \* resize_image: the target width
    new_size,   \* resize_image: the size handed to image.resize
    ascii_chars,   \* the glyph ramp, a sequence of characters
    pattern_mode,  \* block mapping instead of per-pixel mapping
    mapped,     \* what the glyph mapping gave: [fault, str, text]
    animate,      \* args.animate
    output_file,  \* an output file is given (args.output)
    open_ok,      \* Image.open succeeds on the path given
    n_frames,     \* image.n_frames
    bad_frame,    \* the frame whose seek raises; n_frames if none does
    write_ok,     \* opening and writing the output file succeeds
    frame_gray,   \* frame index -> intensity of that (solid) frame
    cur_frame,    \* the frame the opened image stands at
    frame_idx,    \* the frame the animated path is processing
    frames,       \* the frames' texts collected by the animated path
    play_idx,     \* position of the playback's for loop in frames
    log,          \* the playback's output events
    messages,     \* the status lines printed
    ascii_art,    \* what image_to_ascii returned
    file_text,    \* what was written to the output file
    console,      \* what main printed
    fault         \* the exception that left main, if one did

dvars == <<method, image, height, width, img_array, y, x, old_pixel,
           new_pixel, shares, left_range, result>>

svars == <<size, new_width, new_size>>

mvars == <<ascii_chars, pattern_mode, mapped>>

rvars == <<animate, output_file, open_ok, n_frames, bad_frame, write_ok,
           frame_gray, cur_frame, frame_idx, frames, play_idx, log, messages,
           ascii_art, file_text, console, fault>>

vars == <<pc, dvars, svars, mvars, rvars>>

\* Python's None, where a text (a sequence of characters) may stand
None == <<"None">>

IdleDither ==
    /\ method = "none"
    /\ image = <<>>
    /\ height = 0
    /\ width = 0
    /\ img_array = <<>>
    /\ y = 0
    /\ x = 0
    /\ old_pixel = FromInt(0)
    /\ new_pixel = FromInt(0)
    /\ shares = <<>>
    /\ left_range = FALSE
    /\ result = <<>>

IdleResize ==
    /\ size = <<0, 0>>
    /\ new_width = 0
    /\ new_size = <<0, 0>>

IdleMap ==
    /\ ascii_chars = <<>>
    /\ pattern_mode = FALSE
    /\ mapped = None

IdleRun ==
    /\ animate = FALSE
    /\ output_file = FALSE
    /\ open_ok = FALSE
    /\ n_frames = 0
    /\ bad_frame = 0
    /\ write_ok = FALSE
    /\ frame_gray = <<>>
    /\ cur_frame = 0
    /\ frame_idx = 0
    /\ frames = <<>>
    /\ play_idx = 0
    /\ log = <<>>
    /\ messages = <<>>
    /\ ascii_art = None
    /\ file_text = None
    /\ console = None
    /\ fault = "none"

\* ------------------------------------------------------- apply_dithering
Methods == {"none", "ordered", "floyd-steinberg", "atkinson"}

Cells(h, w) == (0..(h - 1)) \X (0..(w - 1))

\* Input intensities the grids are built from, and the grids: a family that
\* holds the uniform grids, gradients and checkerboards.
Palette == <<0, 100, 128, 255>>

InputGrid(h, w, a, b, c) ==
    [cell \in Cells(h, w) |->
        Palette[((a * cell[2] + b * cell[1] + c) % Len(Palette)) + 1]]

bayer_matrix ==
    LET m == << <<0, 8, 2, 10>>, <<12, 4, 14, 6>>, <<3, 11, 1, 9>>, <<15, 7, 13, 5>> >>
    IN  [i \in 0..3 |-> [j \in 0..3 |-> FMul(FDiv(FromInt(m[i + 1][j + 1]), 16), 255)]]

\* new_pixel = 255 if old_pixel > 127 else 0
Binarize(p) == IF FGt(p, 127) THEN FromInt(255) ELSE FromInt(0)

\* FloydSteinbergShares with the 3/16 share sent to the left neighbour of
\* the same row instead of the row below
FloydSteinbergSharesLeft(error, yy, xx, h, w) ==
    LET right == IF xx + 1 < w THEN {<<yy, xx + 1>>} ELSE {}
        left  == IF yy + 1 < h /\ xx - 1 >= 0 THEN {<<yy, xx - 1>>} ELSE {}
        below == IF yy + 1 < h
                 THEN {<<yy + 1, xx>>}
                      \cup (IF xx + 1 < w THEN {<<yy + 1, xx + 1>>} ELSE {})
                 ELSE {}
        weight(c) == IF c = <<yy, xx + 1>> THEN 7
                     ELSE IF c = <<yy, xx - 1>> THEN 3
                     ELSE IF c = <<yy + 1, xx>> THEN 5
                     ELSE 1
    IN  [c \in right \cup left \cup below |-> FDiv(FMul(error, weight(c)), 16)]

\* The amounts the Floyd-Steinberg branch adds, by target cell.
FloydSteinbergShares(error, yy, xx, h, w) ==
    LET right == IF xx + 1 < w THEN {<<yy, xx + 1>>} ELSE {}
        below == IF yy + 1 < h
                 THEN (IF xx - 1 >= 0 THEN {<<yy + 1, xx - 1>>} ELSE {})
                      \cup {<<yy + 1, xx>>}
                      \cup (IF xx + 1 < w THEN {<<yy + 1, xx + 1>>} ELSE {})
                 ELSE {}
        weight(c) == IF c = <<yy, xx + 1>> THEN 7
                     ELSE IF c = <<yy + 1, xx - 1>> THEN 3
                     ELSE IF c = <<yy + 1, xx>> THEN 5
                     ELSE 1
    IN  [c \in right \cup below |-> FDiv(FMul(error, weight(c)), 16)]

\* AtkinsonShares without the (x+2, y) neighbour
AtkinsonSharesFive(error, yy, xx, h, w) ==
    LET row  == IF xx + 1 < w THEN {<<yy, xx + 1>>} ELSE {}
        next == IF yy + 1 < h
                THEN (IF xx - 1 >= 0 THEN {<<yy + 1, xx - 1>>} ELSE {})
                     \cup {<<yy + 1, xx>>}
                     \cup (IF xx + 1 < w THEN {<<yy + 1, xx + 1>>} ELSE {})
                ELSE {}
        far  == IF yy + 2 < h THEN {<<yy + 2, xx>>} ELSE {}
    IN  [c \in row \cup next \cup far |-> error]

\* The amounts the Atkinson branch adds, by target cell.
AtkinsonShares(error, yy, xx, h, w) ==
    LET row  == (IF xx + 1 < w THEN {<<yy, xx + 1>>} ELSE {})
                \cup (IF xx + 2 < w THEN {<<yy, xx + 2>>} ELSE {})
        next == IF yy + 1 < h
                THEN (IF xx - 1 >= 0 THEN {<<yy + 1, xx - 1>>} ELSE {})
                     \cup {<<yy + 1, xx>>}
                     \cup (IF xx + 1 < w THEN {<<yy + 1, xx + 1>>} ELSE {})
                ELSE {}
        far  == IF yy + 2 < h THEN {<<yy + 2, xx>>} ELSE {}
    IN  [c \in row \cup next \cup far |-> error]

\* img_array after the pixel at cell is set to np and the shares are added
Diffuse(arr, cell, np, sh) ==
    [c \in DOMAIN arr |->
        IF c = cell THEN np
        ELSE IF c \in DOMAIN sh THEN FAdd(arr[c], sh[c])
        ELSE arr[c]]

\* One pass of the loop body at pixel (xx, yy) of arr, for each scanning
\* method: the value read, the value written, the amounts added to the
\* neighbours, the array afterwards and the value before clamping.
OrderedPixel(arr, yy, xx) ==
    LET threshold == bayer_matrix[yy % 4][xx % 4]
        biased    == FSub(FAdd(arr[<<yy, xx>>], threshold), FromInt(128))
    IN  [old |-> arr[<<yy, xx>>], new |-> Clamp(biased), sh |-> <<>>,
         raw |-> biased, arr |-> [arr EXCEPT ![<<yy, xx>>] = Clamp(biased)]]

FloydSteinbergPixel(arr, yy, xx, h, w) ==
    LET op    == arr[<<yy, xx>>]
        np    == Binarize(op)
        error == FSub(op, np)
        sh    == FloydSteinbergShares(error, yy, xx, h, w)
    IN  [old |-> op, new |-> np, sh |-> sh, raw |-> op,
         arr |-> Diffuse(arr, <<yy, xx>>, np, sh)]

AtkinsonPixel(arr, yy, xx, h, w) ==
    LET op    == arr[<<yy, xx>>]
        np    == Binarize(op)
        error == FDiv(FSub(op, np), 8)
        sh    == AtkinsonShares(error, yy, xx, h, w)
    IN  [old |-> op, new |-> np, sh |-> sh, raw |-> op,
         arr |-> Diffuse(arr, <<yy, xx>>, np, sh)]

ScanPixel(m, arr, yy, xx, h, w) ==
    IF m = "ordered" THEN OrderedPixel(arr, yy, xx)
    ELSE IF m = "floyd-steinberg" THEN FloydSteinbergPixel(arr, yy, xx, h, w)
    ELSE AtkinsonPixel(arr, yy, xx, h, w)

\* The whole scan, for y in range(height): for x in range(width), from the
\* k-th pixel in row-major order on.
RECURSIVE Scan(_, _, _, _, _)
Scan(m, arr, k, h, w) ==
    IF k >= h * w THEN arr
    ELSE Scan(m, ScanPixel(m, arr, k \div w, k % w, h, w).arr, k + 1, h, w)

\* Image.fromarray(np.clip(img_array, 0, 255).astype(np.uint8))
FromArray(arr) == [cell \in DOMAIN arr |-> ToUint8(Clamp(arr[cell]))]

\* apply_dithering as a function of its arguments
apply_dithering(img, m, h, w) ==
    IF m = "none" THEN img
    ELSE FromArray(Scan(m, [cell \in Cells(h, w) |-> FromInt(img[cell])], 0, h, w))

OutOfRange(arr) == \E c \in DOMAIN arr : FLt(arr[c], 0) \/ FGt(arr[c], 255)

\* for x in range(width) inside for y in range(height): the next pixel
Advance ==
    IF x + 1 < width THEN x' = x + 1 /\ y' = y
    ELSE x' = 0 /\ y' = y + 1

InitDither ==
    /\ pc = "scan"
    /\ method \in Methods
    /\ height \in 1..MaxH
    /\ width \in 1..MaxW
    /\ \E a, b, c \in 0..(Len(Palette) - 1) : image = InputGrid(height, width, a, b, c)
    /\ img_array = [cell \in Cells(height, width) |-> FromInt(image[cell])]
    /\ y = 0
    /\ x = 0
    /\ old_pixel = FromInt(0)
    /\ new_pixel = FromInt(0)
    /\ shares = <<>>
    /\ left_range = FALSE
    /\ result = <<>>
    /\ IdleResize
    /\ IdleMap
    /\ IdleRun

\* method == 'none': the input image is returned as it is
ReturnImage ==
    /\ pc = "scan"
    /\ method = "none"
    /\ result' = apply_dithering(image, method, height, width)
    /\ pc' = "done"
    /\ UNCHANGED <<method, image, height, width, img_array, y, x, old_pixel,
                   new_pixel, shares, left_range>>
    /\ UNCHANGED <<svars, mvars, rvars>>

\* the loop body of branch m at the scan's pixel, and the move to the next
Step(m) ==
    /\ y < height
    /\ LET p == ScanPixel(m, img_array, y, x, height, width)
       IN  /\ old_pixel' = p.old
           /\ new_pixel' = p.new
           /\ shares' = p.sh
           /\ img_array' = p.arr
           /\ left_range' = (left_range \/ OutOfRange(p.arr)
                             \/ FLt(p.raw, 0) \/ FGt(p.raw, 255))
    /\ Advance
    /\ UNCHANGED <<pc, method, image, height, width, result>>
    /\ UNCHANGED <<svars, mvars, rvars>>

\* one pixel of the ordered branch
OrderedStep ==
    /\ pc = "scan"
    /\ method = "ordered"
    /\ Step("ordered")

\* one pixel of the Floyd-Steinberg branch
FloydSteinbergStep ==
    /\ pc = "scan"
    /\ method = "floyd-steinberg"
    /\ Step("floyd-steinberg")

\* one pixel of the Atkinson branch
AtkinsonStep ==
    /\ pc = "scan"
    /\ method = "atkinson"
    /\ Step("atkinson")

\* the scan is over: the clipped array is returned as an image
ReturnFromArray ==
    /\ pc = "scan"
    /\ method # "none"
    /\ y = height
    /\ result' = FromArray(img_array)
    /\ pc' = "done"
    /\ UNCHANGED <<method, image, height, width, img_array, y, x, old_pixel,
                   new_pixel, shares, left_range>>
    /\ UNCHANGED <<svars, mvars, rvars>>

NextDither ==
    \/ ReturnImage
    \/ OrderedStep
    \/ FloydSteinbergStep
    \/ AtkinsonStep
    \/ ReturnFromArray

SpecDither == InitDither /\ [][NextDither]_vars

\* Every working value is exactly a float64, so the arithmetic above is the
\* source's arithmetic.
FloatExact == pc \in {"scan", "done"} => \A c \in DOMAIN img_array : Fits(img_array[c])

\* The step-by-step scan and apply_dithering as a function agree.
ScanAgrees == pc = "done" => result = apply_dithering(image, method, height, width)

\* ---------------------------------------------------------- resize_image
\* int(aspect_ratio * new_width * 0.55) with aspect_ratio = height / width.
\* int() truncates; the product is positive, so this is its floor.  The
\* float product and the exact one, h * nw * 55 / (w * 100), have the same
\* floor for every size and width of Dims.
ResizeHeightRounded(w, h, nw) == (2 * h * nw * 55 + w * 100) \div (2 * w * 100)

ResizeHeight(w, h, nw) == (h * nw * 55) \div (w * 100)

\* the size of resize_image(image, nw) for a source of size sz
ResizedSize(sz, nw) == <<nw, ResizeHeight(sz[1], sz[2], nw)>>

Dims == (1..MaxDim) \cup {100, 200}

InitResize ==
    /\ pc = "resize"
    /\ size \in Dims \X Dims
    /\ new_width \in Dims
    /\ new_size = <<0, 0>>
    /\ IdleDither
    /\ IdleMap
    /\ IdleRun

resize_image ==
    /\ pc = "resize"
    /\ new_size' = ResizedSize(size, new_width)
    /\ pc' = "resized"
    /\ UNCHANGED <<size, new_width, dvars, mvars, rvars>>

NextResize == resize_image

SpecResize == InitResize /\ [][NextResize]_vars

\* ------------------------------------------------------- the glyph mappers
DefaultRamp == <<" ", ".", ":", "-", "=", "+", "*", "#", "%", "@">>

\* chars[::-1]
Reverse(s) == [i \in 1..Len(s) |-> s[Len(s) + 1 - i]]

Min(a, b) == IF a < b THEN a ELSE b

\* s[i] in Python, where a negative i counts from the end
PyIndexOk(s, i) == (i >= 0 /\ i < Len(s)) \/ (i < 0 /\ -i <= Len(s))

PyIndex(s, i) == IF i >= 0 THEN s[i + 1] ELSE s[Len(s) + i + 1]

\* CharIndex dividing by 255 and not capping
CharIndex255(pixel, n) == (pixel * n) \div 255

\* min(int(pixel * len(ascii_chars) / 256), len(ascii_chars) - 1)
CharIndex(pixel, n) == Min((pixel * n) \div 256, n - 1)

\* the same for the mean of a block of cnt pixels that sum to total
BlockCharIndex(total, cnt, n) == Min((total * n) \div (cnt * 256), n - 1)

\* list(image.getdata()): the pixels in row-major order
GetData(img, h, w) == [k \in 1..(h * w) |-> img[<<(k - 1) \div w, (k - 1) % w>>]]

\* pixels_to_ascii from the k-th pixel on, acc being ascii_str so far
RECURSIVE PixelsFrom(_, _, _, _)
PixelsFrom(pixels, chars, k, acc) ==
    IF k > Len(pixels) THEN [fault |-> "none", str |-> acc]
    ELSE LET char_index == CharIndex(pixels[k], Len(chars))
         IN  IF ~PyIndexOk(chars, char_index)
             THEN [fault |-> "IndexError", str |-> acc]
             ELSE PixelsFrom(pixels, chars, k + 1, Append(acc, PyIndex(chars, char_index)))

pixels_to_ascii(img, h, w, chars) == PixelsFrom(GetData(img, h, w), chars, 1, <<>>)

RECURSIVE SumOver(_, _)
SumOver(img, cells) ==
    IF cells = {} THEN 0
    ELSE LET c == CHOOSE c \in cells : TRUE
         IN  img[c] + SumOver(img, cells \ {c})

\* pixels_to_ascii_pattern from the k-th 2x2 block on, in row-major order
RECURSIVE BlocksFrom(_, _, _, _, _, _)
BlocksFrom(img, h, w, chars, k, acc) ==
    LET per_row == (w + 1) \div 2
        by == 2 * (k \div per_row)
        bx == 2 * (k % per_row)
        block_height == Min(2, h - by)
        block_width == Min(2, w - bx)
        block == (by..(by + block_height - 1)) \X (bx..(bx + block_width - 1))
        char_index == BlockCharIndex(SumOver(img, block), block_height * block_width, Len(chars))
        line_end == IF bx + 2 >= w THEN <<"\n">> ELSE <<>>
    IN  IF k >= per_row * ((h + 1) \div 2) THEN [fault |-> "none", str |-> acc]
        ELSE IF ~PyIndexOk(chars, char_index) THEN [fault |-> "IndexError", str |-> acc]
        ELSE BlocksFrom(img, h, w, chars, k + 1, acc \o <<PyIndex(chars, char_index)>> \o line_end)

pixels_to_ascii_pattern(img, h, w, chars) == BlocksFrom(img, h, w, chars, 0, <<>>)

\* "\n".join(ascii_str[i:i+img_width] for i in range(0, len(ascii_str), img_width))
RECURSIVE JoinRows(_, _)
JoinRows(str, w) ==
    IF Len(str) <= w THEN str
    ELSE SubSeq(str, 1, w) \o <<"\n">> \o JoinRows(SubSeq(str, w + 1, Len(str)), w)

\* The conversion both paths of image_to_ascii make of a resized grayscale
\* image: dithering if requested, then the glyph mapping and the row breaks.
\* text is ascii_str_with_breaks; a fault is the exception raised.
ToAscii(img, h, w, m, pattern, chars) ==
    LET dithered == IF m # "none" THEN apply_dithering(img, m, h, w) ELSE img
        r == IF pattern THEN pixels_to_ascii_pattern(dithered, h, w, chars)
             ELSE pixels_to_ascii(dithered, h, w, chars)
    IN  [fault |-> r.fault, str |-> r.str,
         text |-> IF r.fault # "none" THEN None
                  ELSE IF pattern THEN r.str ELSE JoinRows(r.str, w)]

\* Grayscale inputs: every intensity occurs, in uniform grids and in ramps.
Strides == {0, 51}

GrayGrid(h, w, v, s) == [cell \in Cells(h, w) |-> (v + s * (cell[1] * w + cell[2])) % 256]

Ramps == {SubSeq(DefaultRamp, 1, n) : n \in 0..Len(DefaultRamp)} \cup {Reverse(DefaultRamp)}

InitMap ==
    /\ pc = "ready"
    /\ height \in 1..MaxMapDim
    /\ width \in 1..MaxMapDim
    /\ \E v \in 0..255, s \in Strides : image = GrayGrid(height, width, v, s)
    /\ ascii_chars \in Ramps
    /\ pattern_mode \in BOOLEAN
    /\ mapped = None
    /\ method = "none"
    /\ img_array = <<>>
    /\ y = 0
    /\ x = 0
    /\ old_pixel = FromInt(0)
    /\ new_pixel = FromInt(0)
    /\ shares = <<>>
    /\ left_range = FALSE
    /\ result = <<>>
    /\ IdleResize
    /\ IdleRun

\* the per-pixel mapping and the row breaks of image_to_ascii
PixelsToAscii ==
    /\ pc = "ready"
    /\ ~pattern_mode
    /\ mapped' = ToAscii(image, height, width, method, pattern_mode, ascii_chars)
    /\ pc' = "mapped"
    /\ UNCHANGED <<ascii_chars, pattern_mode, dvars, svars, rvars>>

\* the block mapping
PixelsToAsciiPattern ==
    /\ pc = "ready"
    /\ pattern_mode
    /\ mapped' = ToAscii(image, height, width, method, pattern_mode, ascii_chars)
    /\ pc' = "mapped"
    /\ UNCHANGED <<ascii_chars, pattern_mode, dvars, svars, rvars>>

NextMap ==
    \/ PixelsToAscii
    \/ PixelsToAsciiPattern

SpecMap == InitMap /\ [][NextMap]_vars

\* ------------------------------------------------- image_to_ascii and main
\* The sources are images whose frames are each of one intensity, so that a
\* resized, grayscale frame is the grid of that intensity of the size
\* resize_image computes, whatever the resampling filter.
SourceSize == <<1, 2>>

FrameGrid(k) ==
    LET sz == ResizedSize(size, new_width)
    IN  [cell \in Cells(sz[2], sz[1]) |-> frame_gray[k]]

\* resize, grayscale, dithering and mapping of the frame the image stands at
Convert(k) ==
    LET sz == ResizedSize(size, new_width)
    IN  ToAscii(FrameGrid(k), sz[2], sz[1], method, pattern_mode, ascii_chars)

\* hasattr(image, "is_animated") and image.is_animated
is_animated == n_frames > 1

\* where except Exception of the animated path leaves the run
AfterFrameErrorReturn == "returned"

AfterFrameError == "static"

\* the for loop over frames, restarted by while True
NextFrameStuck(i, n) == i

NextFrame(i, n) == (i + 1) % n

\* truthiness of what image_to_ascii returned
Truthy(t) == t # None /\ t # <<>>

Event(kind, text) == [ev |-> kind, text |-> text]

InitRun ==
    /\ pc = "main"
    /\ animate \in BOOLEAN
    /\ output_file \in BOOLEAN
    /\ method \in Methods
    /\ pattern_mode \in BOOLEAN
    /\ ascii_chars \in {DefaultRamp, <<>>}
    /\ size = SourceSize
    /\ new_width \in 1..2
    /\ open_ok \in BOOLEAN
    /\ write_ok \in BOOLEAN
    /\ n_frames \in 1..MaxFrames
    /\ bad_frame \in 0..n_frames
    /\ frame_gray \in [0..(n_frames - 1) -> {0, 255}]
    /\ cur_frame = 0
    /\ frame_idx = 0
    /\ frames = <<>>
    /\ play_idx = 0
    /\ log = <<>>
    /\ messages = <<>>
    /\ ascii_art = None
    /\ file_text = None
    /\ console = None
    /\ fault = "none"
    /\ new_size = <<0, 0>>
    /\ mapped = None
    /\ image = <<>>
    /\ height = 0
    /\ width = 0
    /\ img_array = <<>>
    /\ y = 0
    /\ x = 0
    /\ old_pixel = FromInt(0)
    /\ new_pixel = FromInt(0)
    /\ shares = <<>>
    /\ left_range = FALSE
    /\ result = <<>>

\* Image.open raises: the error is printed and None returned
OpenFails ==
    /\ pc = "main"
    /\ ~open_ok
    /\ messages' = Append(messages, "Error opening image")
    /\ ascii_art' = None
    /\ pc' = "returned"
    /\ UNCHANGED <<animate, output_file, open_ok, n_frames, bad_frame, write_ok,
                   frame_gray, cur_frame, frame_idx, frames, play_idx, log,
                   file_text, console, fault>>
    /\ UNCHANGED <<dvars, svars, mvars>>

\* Image.open succeeds: the animated path if the image is animated and
\* animation is asked for, the static path otherwise
OpenImage ==
    /\ pc = "main"
    /\ open_ok
    /\ pc' = IF is_animated /\ animate THEN "frames" ELSE "static"
    /\ UNCHANGED rvars
    /\ UNCHANGED <<dvars, svars, mvars>>

\* one pass of for frame_idx in range(frame_count), with the handler of the
\* enclosing try when the seek or the conversion raises
ProcessFrame ==
    /\ pc = "frames"
    /\ frame_idx < n_frames
    /\ IF frame_idx = bad_frame
       THEN /\ messages' = Append(messages, "Error processing animated GIF")
            /\ pc' = AfterFrameError
            /\ UNCHANGED <<cur_frame, frame_idx, frames>>
       ELSE LET r == Convert(frame_idx)
            IN  /\ cur_frame' = frame_idx
                /\ IF r.fault # "none"
                   THEN /\ messages' = Append(messages, "Error processing animated GIF")
                        /\ pc' = AfterFrameError
                        /\ UNCHANGED <<frame_idx, frames>>
                   ELSE /\ frames' = Append(frames, r.text)
                        /\ frame_idx' = frame_idx + 1
                        /\ pc' = IF frame_idx + 1 < n_frames THEN "frames" ELSE "clear"
                        /\ UNCHANGED messages
    /\ UNCHANGED <<animate, output_file, open_ok, n_frames, bad_frame, write_ok,
                   frame_gray, play_idx, log, ascii_art, file_text, console, fault>>
    /\ UNCHANGED <<dvars, svars, mvars>>

\* clear_screen()
ClearScreen ==
    /\ pc = "clear"
    /\ Len(log) < MaxEvents
    /\ log' = Append(log, Event("clear", <<>>))
    /\ pc' = "print"
    /\ UNCHANGED <<animate, output_file, open_ok, n_frames, bad_frame, write_ok,
                   frame_gray, cur_frame, frame_idx, frames, play_idx, messages,
                   ascii_art, file_text, console, fault>>
    /\ UNCHANGED <<dvars, svars, mvars>>

\* print(frame)
PrintFrame ==
    /\ pc = "print"
    /\ Len(log) < MaxEvents
    /\ log' = Append(log, Event("print", frames[play_idx + 1]))
    /\ pc' = "sleep"
    /\ UNCHANGED <<animate, output_file, open_ok, n_frames, bad_frame, write_ok,
                   frame_gray, cur_frame, frame_idx, frames, play_idx, messages,
                   ascii_art, file_text, console, fault>>
    /\ UNCHANGED <<dvars, svars, mvars>>

\* time.sleep(delay), then the next frame
Sleep ==
    /\ pc = "sleep"
    /\ Len(log) < MaxEvents
    /\ log' = Append(log, Event("sleep", <<>>))
    /\ play_idx' = NextFrame(play_idx, Len(frames))
    /\ pc' = "clear"
    /\ UNCHANGED <<animate, output_file, open_ok, n_frames, bad_frame, write_ok,
                   frame_gray, cur_frame, frame_idx, frames, messages,
                   ascii_art, file_text, console, fault>>
    /\ UNCHANGED <<dvars, svars, mvars>>

\* KeyboardInterrupt during the playback
Interrupt ==
    /\ pc \in {"clear", "print", "sleep"}
    /\ messages' = Append(messages, "Animation stopped.")
    /\ ascii_art' = None
    /\ pc' = "returned"
    /\ UNCHANGED <<animate, output_file, open_ok, n_frames, bad_frame, write_ok,
                   frame_gray, cur_frame, frame_idx, frames, play_idx, log,
                   file_text, console, fault>>
    /\ UNCHANGED <<dvars, svars, mvars>>

\* the static path: conversion, the output file, the return.  No handler
\* encloses the conversion: what it raises leaves image_to_ascii and main.
StaticPath ==
    /\ pc = "static"
    /\ LET r == Convert(cur_frame)
       IN  IF r.fault # "none"
           THEN /\ fault' = r.fault
                /\ pc' = "aborted"
                /\ UNCHANGED <<ascii_art, file_text, messages>>
           ELSE /\ ascii_art' = r.text
                /\ file_text' = IF output_file /\ write_ok THEN r.text ELSE file_text
                /\ messages' = IF ~output_file THEN messages
                               ELSE IF write_ok THEN Append(messages, "ASCII art saved")
                               ELSE Append(messages, "Error saving to file")
                /\ pc' = "returned"
                /\ UNCHANGED fault
    /\ UNCHANGED <<animate, output_file, open_ok, n_frames, bad_frame, write_ok,
                   frame_gray, cur_frame, frame_idx, frames, play_idx, log, console>>
    /\ UNCHANGED <<dvars, svars, mvars>>

\* main after image_to_ascii has returned
MainPrint ==
    /\ pc = "returned"
    /\ console' = IF ~output_file /\ Truthy(ascii_art) /\ ~animate THEN ascii_art ELSE console
    /\ pc' = "exit"
    /\ UNCHANGED <<animate, output_file, open_ok, n_frames, bad_frame, write_ok,
                   frame_gray, cur_frame, frame_idx, frames, play_idx, log,
                   messages, ascii_art, file_text, fault>>
    /\ UNCHANGED <<dvars, svars, mvars>>

NextRun ==
    \/ OpenFails
    \/ OpenImage
    \/ ProcessFrame
    \/ ClearScreen
    \/ PrintFrame
    \/ Sleep
    \/ Interrupt
    \/ StaticPath
    \/ MainPrint

SpecRun == InitRun /\ [][NextRun]_vars

\* ------------------------------------------------ the dither engine's claims
ErrorDiffusion == {"floyd-steinberg", "atkinson"}

\* the sum of the amounts of f, a function from cells to floats
RECURSIVE FSum(_)
FSum(f) ==
    IF DOMAIN f = {} THEN FromInt(0)
    ELSE LET k == CHOOSE k \in DOMAIN f : TRUE
         IN  FAdd(f[k], FSum([j \in DOMAIN f \ {k} |-> f[j]]))

\* row-major position of a cell, and the number of pixels the scan has done
Index(c) == c[1] * width + c[2]

Processed == y * width + x

LastCell == <<(Processed - 1) \div width, (Processed - 1) % width>>

InGrid(c) == c[1] \in 0..(height - 1) /\ c[2] \in 0..(width - 1)

\* <<dy, dx>> -> weight in sixteenths (Floyd-Steinberg) and the six Atkinson
\* neighbours, as the dithering literature gives them
FSKernel == {<< <<0, 1>>, 7>>, << <<1, -1>>, 3>>, << <<1, 0>>, 5>>, << <<1, 1>>, 1>>}

AtkinsonKernel == {<<0, 1>>, <<0, 2>>, <<1, -1>>, <<1, 0>>, <<1, 1>>, <<2, 0>>}

Shift(c, d) == <<c[1] + d[1], c[2] + d[2]>>

RECURSIVE WeightIn(_, _)
WeightIn(c, kernel) ==
    IF kernel = {} THEN 0
    ELSE LET k == CHOOSE k \in kernel : TRUE
         IN  (IF InGrid(Shift(c, k[1])) THEN k[2] ELSE 0) + WeightIn(c, kernel \ {k})

AllInside(c) ==
    IF method = "floyd-steinberg"
    THEN \A k \in FSKernel : InGrid(Shift(c, k[1]))
    ELSE \A d \in AtkinsonKernel : InGrid(Shift(c, d))

\* C2: whatever the method, the grid apply_dithering returns has the input's
\* width and height and every value of it is within 0..255 (working values
\* may leave 0..255 during the Floyd-Steinberg and Atkinson scans).
C2_OutputInRange ==
    pc = "done" =>
        /\ DOMAIN result = DOMAIN image
        /\ DOMAIN result = Cells(height, width)
        /\ \A c \in DOMAIN result : result[c] \in 0..255

\* A Floyd-Steinberg run whose working buffer left [0, 255] has returned.
C2_Witness ==
    /\ pc = "done"
    /\ method = "floyd-steinberg"
    /\ left_range
    /\ \A c \in DOMAIN result : result[c] \in 0..255

\* C3 as stated: for each pixel processed by error diffusion the shares added
\* to other cells sum to the full quantization error (Floyd-Steinberg) and to
\* exactly 6/8 of it (Atkinson).
C3_SharesSumAsClaimed ==
    (pc = "scan" /\ method \in ErrorDiffusion /\ Processed > 0) =>
        LET q == FSub(old_pixel, new_pixel)
        IN  IF method = "floyd-steinberg"
            THEN FSum(shares) = q
            ELSE FSum(shares) = FMul(FDiv(q, 8), 6)

\* C3 amended: that holds for each pixel whose diffusion neighbours all lie
\* inside the grid; for any pixel the shares sum to the error times the
\* weights of the neighbours that are inside the grid, the shares of the
\* others being dropped.
C3_SharesSumInside ==
    (pc = "scan" /\ method \in ErrorDiffusion /\ Processed > 0) =>
        LET q == FSub(old_pixel, new_pixel)
        IN  /\ method = "floyd-steinberg" =>
                /\ FSum(shares) = FDiv(FMul(q, WeightIn(LastCell, FSKernel)), 16)
                /\ AllInside(LastCell) => FSum(shares) = q
            /\ method = "atkinson" =>
                /\ FSum(shares) =
                       FMul(FDiv(q, 8), Cardinality({d \in AtkinsonKernel : InGrid(Shift(LastCell, d))}))
                /\ AllInside(LastCell) => FSum(shares) = FMul(FDiv(q, 8), 6)

\* An Atkinson step at a pixel with all six neighbours inside the grid and a
\* non-zero error.
C3_Witness ==
    /\ pc = "scan"
    /\ method = "atkinson"
    /\ Processed > 0
    /\ AllInside(LastCell)
    /\ old_pixel # new_pixel
    /\ Cardinality(DOMAIN shares) = 6

\* C10: in a Floyd-Steinberg or Atkinson scan, error is added only to cells
\* inside the grid that come strictly later in row-major order than the pixel
\* being processed; every visited cell holds exactly 0 or 255 and is never
\* written again; the returned grid holds only 0 and 255.
C10_State ==
    method \in ErrorDiffusion =>
        /\ pc = "scan" =>
              \A c \in DOMAIN img_array :
                  Index(c) < Processed => img_array[c] \in {FromInt(0), FromInt(255)}
        /\ (pc = "scan" /\ Processed > 0) =>
              \A c \in DOMAIN shares : InGrid(c) /\ Index(c) > Processed - 1
        /\ pc = "done" => \A c \in DOMAIN result : result[c] \in {0, 255}

C10_VisitedKept ==
    (pc = "scan" /\ method \in ErrorDiffusion) =>
        \A c \in DOMAIN img_array : Index(c) < Processed => img_array'[c] = img_array[c]

\* C10: error goes to later in-grid cells only, visited cells hold 0 or 255
\* and never change, and the returned grid holds only 0 and 255.
C10_OnlyLaterCells == [](C10_State) /\ [][C10_VisitedKept]_vars

\* A Floyd-Steinberg scan that has passed two pixels and has just added a
\* non-zero error to its neighbours.
C10_Witness ==
    /\ pc = "scan"
    /\ method = "floyd-steinberg"
    /\ Processed >= 2
    /\ old_pixel # new_pixel
    /\ shares # <<>>

\* ---------------------------------------------------- the resampler's claim
\* round() of a positive rational num / den, ties to even
Rounded(num, den) ==
    LET q == num \div den
        r == num % den
    IN  IF 2 * r < den THEN q
        ELSE IF 2 * r > den THEN q + 1
        ELSE IF q % 2 = 0 THEN q ELSE q + 1

\* C4 as stated: resize_image hands image.resize the width newWidth and the
\* height round(newWidth * (sourceHeight / sourceWidth) * 0.55); a 200x100
\* source resized to width 100 gets height 28.
C4_HeightRounded ==
    pc = "resized" =>
        /\ new_size = <<new_width, Rounded(size[2] * new_width * 55, size[1] * 100)>>
        /\ (size = <<200, 100>> /\ new_width = 100) => new_size[2] = 28

\* C4 amended: the height is that product truncated, its floor, not rounded;
\* a 200x100 source resized to width 100 gets height 27.
C4_HeightTruncated ==
    pc = "resized" =>
        /\ new_size[1] = new_width
        /\ new_size[2] * size[1] * 100 <= size[2] * new_width * 55
        /\ size[2] * new_width * 55 < (new_size[2] + 1) * size[1] * 100
        /\ (size = <<200, 100>> /\ new_width = 100) => new_size[2] = 27

\* The 200x100 source has been resized to width 100.
C4_Witness ==
    /\ pc = "resized"
    /\ size = <<200, 100>>
    /\ new_width = 100
    /\ new_size = <<100, 27>>

\* ------------------------------------------------- the glyph mappers' claims
Uniform(img, v) == \A c \in DOMAIN img : img[c] = v

\* h rows of w times the character ch, joined by line breaks
RECURSIVE GridOf(_, _, _)
GridOf(ch, h, w) ==
    IF h = 1 THEN [i \in 1..w |-> ch]
    ELSE [i \in 1..w |-> ch] \o <<"\n">> \o GridOf(ch, h - 1, w)

\* C1: for every intensity in 0..255 and every non-empty ramp of length L the
\* per-pixel mapping emits ramp[i] with i = min(floor(intensity * L / 256),
\* L - 1), and i is within 0..L-1: the ramp is never indexed out of bounds.
C1_IndexInRange ==
    (pc = "mapped" /\ ~pattern_mode /\ Len(ascii_chars) > 0) =>
        /\ mapped.fault = "none"
        /\ Len(mapped.str) = height * width
        /\ \A k \in 1..(height * width) :
              LET pixel == image[<<(k - 1) \div width, (k - 1) % width>>]
                  L == Len(ascii_chars)
              IN  \E i \in 0..(L - 1) :
                      /\ mapped.str[k] = ascii_chars[i + 1]
                      /\ \/ i * 256 <= pixel * L /\ pixel * L < (i + 1) * 256
                         \/ i = L - 1 /\ pixel * L >= L * 256

\* Intensity 255 has been mapped through the ten-glyph ramp to its last glyph.
C1_Witness ==
    /\ pc = "mapped"
    /\ ~pattern_mode
    /\ ascii_chars = DefaultRamp
    /\ image[<<0, 0>>] = 255
    /\ mapped.fault = "none"
    /\ mapped.str[1] = "@"

\* C5: with the default ramp, no dithering and per-pixel mapping, an all-black
\* grid (intensity 0) is rendered as a grid of the same dimensions of '@' only
\* and an all-white grid (intensity 255) as ' ' only.
C5_BlackIsAt ==
    (pc = "mapped" /\ ~pattern_mode /\ method = "none" /\ ascii_chars = DefaultRamp) =>
        /\ Uniform(image, 0) => mapped.text = GridOf("@", height, width)
        /\ Uniform(image, 255) => mapped.text = GridOf(" ", height, width)

\* C9: with a zero-length ramp either glyph mapping fails with the distinct
\* error EmptyRamp for every grid, emitting no character.
C9_EmptyRampError ==
    (pc = "mapped" /\ Len(ascii_chars) = 0) =>
        /\ mapped.fault = "EmptyRamp"
        /\ mapped.str = <<>>

\* ------------------------------------------------------- the run's claims
Playing == pc \in {"clear", "print", "sleep"}

Said(msg) == \E k \in 1..Len(messages) : messages[k] = msg

Ended == pc \in {"returned", "exit", "aborted"}

\* all frames were converted: the playback has been entered
Entered == frame_idx = n_frames

\* the k-th event of the endless cycle clear, write f_i, suspend over fs
CycleEvent(k, fs) ==
    LET phase == (k - 1) % 3
        i == ((k - 1) \div 3) % Len(fs)
    IN  IF phase = 0 THEN Event("clear", <<>>)
        ELSE IF phase = 1 THEN Event("print", fs[i + 1])
        ELSE Event("sleep", <<>>)

\* C6: the playback's output events are always a prefix of the cycle (clear,
\* write f_i, suspend) over the frames in order; the loop does not stop on its
\* own: only an interrupt ends it, after which no frame is written and the run
\* ends normally, no rendering returned and no file written.
C6_State ==
    /\ \A k \in 1..Len(log) : log[k] = CycleEvent(k, frames)
    /\ log # <<>> => Entered
    /\ Entered =>
          /\ ascii_art = None
          /\ file_text = None
          /\ console = None
          /\ pc # "aborted"
          /\ Playing \/ Said("Animation stopped.")

C6_Step ==
    /\ (Entered /\ ~Playing) => log' = log
    /\ (Playing /\ ~Playing') =>
          /\ log' = log
          /\ pc' = "returned"
          /\ messages' = Append(messages, "Animation stopped.")

C7_Delivered ==
    (pc = "exit" /\ open_ok /\ ascii_art # None /\ (output_file => write_ok)) =>
        IF output_file THEN file_text = ascii_art ELSE console = ascii_art

\* C8 as stated: when the animated path's processing fails the run does not
\* abort: it goes through the static path and returns a single-frame
\* rendering; when opening the image fails the run returns no rendering,
\* writes no file and starts no animation.
C8_FallbackReturns ==
    /\ (Said("Error processing animated GIF") /\ Ended) =>
          /\ pc # "aborted"
          /\ ascii_art # None
    /\ (~open_ok /\ pc # "main") =>
          /\ ascii_art = None
          /\ file_text = None
          /\ console = None
          /\ frames = <<>>
          /\ log = <<>>

\* C8 amended: after such a failure the run goes through the static path,
\* which returns the rendering of the frame the image stands at if its own
\* conversion succeeds; if that raises too, the exception leaves
\* image_to_ascii and the run aborts with no rendering.  The open failure is
\* as stated.
C8_FallbackStatic ==
    /\ Said("Error processing animated GIF") =>
          /\ ~Playing
          /\ log = <<>>
          /\ Ended =>
                LET r == Convert(cur_frame)
                IN  IF r.fault = "none"
                    THEN pc # "aborted" /\ ascii_art = r.text /\ ascii_art # None
                    ELSE pc = "aborted" /\ fault = r.fault /\ ascii_art = None
    /\ (~open_ok /\ pc # "main") =>
          /\ ascii_art = None
          /\ file_text = None
          /\ console = None
          /\ frames = <<>>
          /\ log = <<>>

\* The seek to the second frame failed and the run returned the rendering of
\* the first.
C8_Witness ==
    /\ pc = "exit"
    /\ Said("Error processing animated GIF")
    /\ bad_frame = 1
    /\ ascii_art # None
    /\ ascii_art = Convert(0).text

====
